---- MODULE Spec2Model ----
(***************************************************************************)
(* The css selector builder of src/src/06-objects-tasks.js.                *)
(*                                                                         *)
(* A builder is an object whose `result` field refers to an array of       *)
(* parts {type, value}.  The model keeps the objects (result: builder ->   *)
(* array reference) and the arrays (heap: reference -> contents) apart, so *)
(* that sharing of an array between two builders is expressible.           *)
(*                                                                         *)
(* Each method is a function of the store giving the outcome of the call   *)
(* (error thrown, builder returned, store afterwards; lower-case names, as *)
(* in the source) and an action that commits that outcome (capitalised).   *)
(* A call that throws leaves the store as it was.  Properties about what a *)
(* call returns or throws are stated over the outcome of the call in every *)
(* reachable store.                                                        *)
(***************************************************************************)
EXTENDS Integers, Sequences, FiniteSets, TLC

\* Bound of the exploration: builders created besides the facade.
MaxBuilders == 3

\* Inputs the callers draw from.  The code never inspects a name; a second
\* name is needed only to tell two parts of the same type apart.
Names == {"a"}
ClassNames == {"a", "b"}
Separators == {"+"}

Facade == 0
None == -1
undefined == "undefined"
NoError == "none"

----------------------------------------------------------------------------
\* Constants of the object literal.

\* The order list with id and class exchanged.
orderSwapped == <<"element", "class", "id", "attribute", "pseudo-class", "pseudo-element", "combine">>

order == <<"element", "id", "class", "attribute", "pseudo-class", "pseudo-element", "combine">>

\* The unique list without id.
uniqueNoId == <<"element", "pseudo-element">>

\* The unique list with class added.
uniqueWithClass == <<"element", "id", "class", "pseudo-element">>

unique == <<"element", "id", "pseudo-element">>

OrderMsg == "Selector parts should be arranged in the following order: element, id, class, attribute, pseudo-class, pseudo-element"

UniqueMsg == "Element, id and pseudo-element should not occur more then one time inside the selector"

----------------------------------------------------------------------------
\* Array primitives, with JavaScript's zero-based positions.

\* Array.prototype.indexOf: position of the first occurrence, -1 when absent.
indexOf(arr, x) ==
  IF \E i \in 1..Len(arr) : arr[i] = x
  THEN (CHOOSE i \in 1..Len(arr) : arr[i] = x /\ \A j \in 1..(i - 1) : arr[j] /= x) - 1
  ELSE -1

\* arr[i] for a zero-based i; out of range reads give undefined.
at(arr, i) == IF i >= 0 /\ i < Len(arr) THEN arr[i + 1] ELSE undefined

\* Array.prototype.filter, given the set of (zero-based) positions that pass.
RECURSIVE filterFrom(_, _, _)
filterFrom(arr, keep, i) ==
  IF i >= Len(arr) THEN <<>>
  ELSE (IF i \in keep THEN <<at(arr, i)>> ELSE <<>>) \o filterFrom(arr, keep, i + 1)

filter(arr, keep) == filterFrom(arr, keep, 0)

\* join() with the default separator instead of ''.
RECURSIVE joinComma(_)
joinComma(arr) ==
  IF arr = <<>> THEN ""
  ELSE IF Len(arr) = 1 THEN Head(arr)
  ELSE Head(arr) \o "," \o joinComma(Tail(arr))

\* Array.prototype.join('').
RECURSIVE join(_)
join(arr) == IF arr = <<>> THEN "" ELSE Head(arr) \o join(Tail(arr))

\* slice(start, start + count) in the place of splice: nothing is removed.
sliceOnly(arr, start, count) ==
  [removed |-> SubSeq(arr, start + 1, start + count), rest |-> arr]

\* Array.prototype.splice(start, count): what is removed and what stays.
splice(arr, start, count) ==
  [removed |-> SubSeq(arr, start + 1, start + count),
   rest    |-> SubSeq(arr, 1, start) \o SubSeq(arr, start + count + 1, Len(arr))]

types(res) == [i \in 1..Len(res) |-> res[i].type]

values(res) == [i \in 1..Len(res) |-> res[i].value]

----------------------------------------------------------------------------
\* The two validations, over the contents of this.result.

multiple(res) ==
  LET arr  == types(res)
      dups == filter(arr, {i \in 0..(Len(arr) - 1) : indexOf(arr, at(arr, i)) /= i})
  IN  \A k \in 1..Len(dups) : indexOf(unique, dups[k]) = -1

\* ordered() comparing every part with the part before it, duplicates included.
orderedNoFilter(res) ==
  IF Len(res) = 1 THEN TRUE
  ELSE LET arr == types(res)
       IN  \A i \in 0..(Len(arr) - 1) :
             indexOf(order, at(arr, i)) > indexOf(order, at(arr, i - 1))

ordered(res) ==
  IF Len(res) = 1 THEN TRUE
  ELSE LET arr   == types(res)
           first == filter(arr, {i \in 0..(Len(arr) - 1) : indexOf(arr, at(arr, i)) = i})
       IN  \A i \in 0..(Len(first) - 1) :
             indexOf(order, at(first, i)) > indexOf(order, at(first, i - 1))

checkOrder == OrderMsg

\* checkUnique() throwing the other message.
checkUniqueOrderMsg == OrderMsg

checkUnique == UniqueMsg

----------------------------------------------------------------------------
VARIABLES result, heap, trail

vars == <<result, heap, trail>>

builders == DOMAIN result

contents(b) == heap[result[b]]

----------------------------------------------------------------------------
\* The methods, as functions of the store (h: the arrays, res: each builder's
\* result reference) giving the outcome of the call.

\* add() pushing onto this.result and handing the same array to the new
\* builder, in the place of concat.
addPush(h, res, this, type, value) ==
  LET newBuilder == Cardinality(DOMAIN res)
      newResult  == h[res[this]] \o <<[type |-> type, value |-> join(value)]>>
      pushed     == [h EXCEPT ![res[this]] = newResult]
      err        == IF ~multiple(newResult) THEN checkUnique
                    ELSE IF ~ordered(newResult) THEN checkOrder
                    ELSE NoError
  IN  IF err = NoError
      THEN [err |-> NoError, new |-> newBuilder,
            heap |-> pushed, result |-> res @@ (newBuilder :> res[this])]
      ELSE [err |-> err, new |-> None, heap |-> pushed, result |-> res]

\* add() running the two checks on this (the receiver) in the place of
\* newBuilder: a violation shows one call late.
addChecksReceiver(h, res, this, type, value) ==
  LET newBuilder == Cardinality(DOMAIN res)
      ref        == Cardinality(DOMAIN h)
      newResult  == h[res[this]] \o <<[type |-> type, value |-> join(value)]>>
      err        == IF ~multiple(h[res[this]]) THEN checkUnique
                    ELSE IF ~ordered(h[res[this]]) THEN checkOrder
                    ELSE NoError
  IN  IF err = NoError
      THEN [err |-> NoError, new |-> newBuilder,
            heap |-> h @@ (ref :> newResult), result |-> res @@ (newBuilder :> ref)]
      ELSE [err |-> err, new |-> None, heap |-> h, result |-> res]

\* add(type, ...value) on builder `this`: the error thrown (NoError when it
\* returns), the new builder, and the store after the call.
add(h, res, this, type, value) ==
  LET newBuilder == Cardinality(DOMAIN res)
      ref        == Cardinality(DOMAIN h)
      newResult  == h[res[this]] \o <<[type |-> type, value |-> join(value)]>>
      err        == IF ~multiple(newResult) THEN checkUnique
                    ELSE IF ~ordered(newResult) THEN checkOrder
                    ELSE NoError
  IN  IF err = NoError
      THEN [err |-> NoError, new |-> newBuilder,
            heap |-> h @@ (ref :> newResult), result |-> res @@ (newBuilder :> ref)]
      ELSE [err |-> err, new |-> None, heap |-> h, result |-> res]

element(h, res, this, value) == add(h, res, this, "element", <<value>>)

id(h, res, this, value) == add(h, res, this, "id", <<"#" \o value>>)

class(h, res, this, value) == add(h, res, this, "class", <<"." \o value>>)

attr(h, res, this, value) == add(h, res, this, "attribute", <<"[" \o value \o "]">>)

pseudoClass(h, res, this, value) == add(h, res, this, "pseudo-class", <<":" \o value>>)

pseudoElement(h, res, this, value) == add(h, res, this, "pseudo-element", <<"::" \o value>>)

\* return(): empties this.result in place and gives the joined values.
return(h, res, this) ==
  LET cut == splice(h[res[this]], 0, Len(h[res[this]]))
  IN  [text |-> join(values(cut.removed)),
       heap |-> [h EXCEPT ![res[this]] = cut.rest]]

stringify(h, res, this) == return(h, res, this)

\* combine() with the two selectors exchanged.
combineSwapped(h, res, this, selector1, separator, selector2) ==
  LET s1 == stringify(h, res, selector1)
      s2 == stringify(s1.heap, res, selector2)
  IN  add(s2.heap, res, this, "combine", <<s2.text, " " \o separator \o " ", s1.text>>)

\* combine() reading the text of both selectors before either is emptied.
combineSnapshot(h, res, this, selector1, separator, selector2) ==
  LET s1 == stringify(h, res, selector1)
      s2 == stringify(h, res, selector2)
      h2 == stringify(s1.heap, res, selector2).heap
  IN  add(h2, res, this, "combine", <<s1.text, " " \o separator \o " ", s2.text>>)

\* combine(selector1, separator, selector2): the arguments of add are evaluated
\* left to right, each stringify emptying its receiver, before add runs.
combine(h, res, this, selector1, separator, selector2) ==
  LET s1 == stringify(h, res, selector1)
      s2 == stringify(s1.heap, res, selector2)
  IN  add(s2.heap, res, this, "combine", <<s1.text, " " \o separator \o " ", s2.text>>)

----------------------------------------------------------------------------
\* History of each builder: the calls that built its sequence since the
\* sequence was last empty.  A combine call records, for each operand, its
\* history and the text its stringify() would have returned when combine was
\* called, and whether the two operands were the same builder.
Call(method, arg, left, right, same, leftText, rightText) ==
  [method |-> method, arg |-> arg, left |-> left, right |-> right, same |-> same,
   leftText |-> leftText, rightText |-> rightText]

Init ==
  /\ result = (Facade :> 0)
  /\ heap = (0 :> <<>>)
  /\ trail = (Facade :> <<>>)

\* The store and the histories after a call on `this` whose outcome is o,
\* the histories before add ran being tr.  Calls are made while there is room
\* for the builder a call may create.
Returned(this, o, tr, call) ==
  /\ Cardinality(builders) <= MaxBuilders
  /\ result' = o.result
  /\ heap' = o.heap
  /\ trail' = IF o.err = NoError THEN tr @@ (o.new :> Append(tr[this], call)) ELSE tr

Element(this, value) ==
  Returned(this, element(heap, result, this, value), trail,
           Call("element", value, <<>>, <<>>, FALSE, "", ""))

Id(this, value) ==
  Returned(this, id(heap, result, this, value), trail,
           Call("id", value, <<>>, <<>>, FALSE, "", ""))

Class(this, value) ==
  Returned(this, class(heap, result, this, value), trail,
           Call("class", value, <<>>, <<>>, FALSE, "", ""))

Attr(this, value) ==
  Returned(this, attr(heap, result, this, value), trail,
           Call("attr", value, <<>>, <<>>, FALSE, "", ""))

PseudoClass(this, value) ==
  Returned(this, pseudoClass(heap, result, this, value), trail,
           Call("pseudoClass", value, <<>>, <<>>, FALSE, "", ""))

PseudoElement(this, value) ==
  Returned(this, pseudoElement(heap, result, this, value), trail,
           Call("pseudoElement", value, <<>>, <<>>, FALSE, "", ""))

Combine(this, selector1, separator, selector2) ==
  Returned(this, combine(heap, result, this, selector1, separator, selector2),
           [trail EXCEPT ![selector1] = <<>>, ![selector2] = <<>>],
           Call("combine", separator, trail[selector1], trail[selector2],
                selector1 = selector2,
                stringify(heap, result, selector1).text,
                stringify(heap, result, selector2).text))

Stringify(this) ==
  /\ heap' = stringify(heap, result, this).heap
  /\ result' = result
  /\ trail' = [trail EXCEPT ![this] = <<>>]

Next ==
  \/ \E this \in builders, value \in Names : Element(this, value)
  \/ \E this \in builders, value \in Names : Id(this, value)
  \/ \E this \in builders, value \in ClassNames : Class(this, value)
  \/ \E this \in builders, value \in Names : Attr(this, value)
  \/ \E this \in builders, value \in Names : PseudoClass(this, value)
  \/ \E this \in builders, value \in Names : PseudoElement(this, value)
  \/ \E this \in builders, selector1 \in builders, selector2 \in builders,
        separator \in Separators : Combine(this, selector1, separator, selector2)
  \/ \E this \in builders : Stringify(this)

Spec == Init /\ [][Next]_vars

\* The callers that build selectors with the six append methods and stringify
\* only, never with combine.
NextAppend ==
  \/ \E this \in builders, value \in Names : Element(this, value)
  \/ \E this \in builders, value \in Names : Id(this, value)
  \/ \E this \in builders, value \in ClassNames : Class(this, value)
  \/ \E this \in builders, value \in Names : Attr(this, value)
  \/ \E this \in builders, value \in Names : PseudoClass(this, value)
  \/ \E this \in builders, value \in Names : PseudoElement(this, value)
  \/ \E this \in builders : Stringify(this)

SpecAppend == Init /\ [][NextAppend]_vars

----------------------------------------------------------------------------
\* Vocabulary of the properties.

AppendMethods == {"element", "id", "class", "attr", "pseudoClass", "pseudoElement"}

ValuesOf(method) == IF method = "class" THEN ClassNames ELSE Names

\* The outcome of calling an append method on `this` in the store (h, res).
call(h, res, this, method, value) ==
  CASE method = "element"       -> element(h, res, this, value)
    [] method = "id"            -> id(h, res, this, value)
    [] method = "class"         -> class(h, res, this, value)
    [] method = "attr"          -> attr(h, res, this, value)
    [] method = "pseudoClass"   -> pseudoClass(h, res, this, value)
    [] method = "pseudoElement" -> pseudoElement(h, res, this, value)

\* The part type each method appends, its rank, and the text it emits.
TypeOf(method) ==
  CASE method = "element"       -> "element"
    [] method = "id"            -> "id"
    [] method = "class"         -> "class"
    [] method = "attr"          -> "attribute"
    [] method = "pseudoClass"   -> "pseudo-class"
    [] method = "pseudoElement" -> "pseudo-element"

Rank(type) ==
  CASE type = "element"        -> 0
    [] type = "id"             -> 1
    [] type = "class"          -> 2
    [] type = "attribute"      -> 3
    [] type = "pseudo-class"   -> 4
    [] type = "pseudo-element" -> 5
    [] type = "combine"        -> 6

Formatted(method, name) ==
  CASE method = "element"       -> name
    [] method = "id"            -> "#" \o name
    [] method = "class"         -> "." \o name
    [] method = "attr"          -> "[" \o name \o "]"
    [] method = "pseudoClass"   -> ":" \o name
    [] method = "pseudoElement" -> "::" \o name

AppendTypes == {TypeOf(m) : m \in AppendMethods}

OnceTypes == {"element", "id", "pseudo-element"}

OnlyAppends(tr) == \A k \in 1..Len(tr) : tr[k].method \in AppendMethods

OnlyAppendParts(res) == \A k \in 1..Len(res) : res[k].type \in AppendTypes

Occurrences(arr, x) == Cardinality({k \in 1..Len(arr) : arr[k] = x})

\* The distinct entries of arr, each at the place of its first occurrence.
RECURSIVE Distinct(_)
Distinct(arr) ==
  IF arr = <<>> THEN <<>>
  ELSE LET front == Distinct(SubSeq(arr, 1, Len(arr) - 1))
           x     == arr[Len(arr)]
       IN  IF \E k \in 1..Len(front) : front[k] = x THEN front ELSE Append(front, x)

\* The texts of the calls of a history, one after the other.
RECURSIVE TextOfCalls(_)
TextOfCalls(tr) ==
  IF tr = <<>> THEN ""
  ELSE Formatted(tr[1].method, tr[1].arg) \o TextOfCalls(Tail(tr))

Text(b) == stringify(heap, result, b).text

----------------------------------------------------------------------------
\* C1: for every builder built from the facade by successful element / id /
\* class / attr / pseudoClass / pseudoElement appends, stringify() returns the
\* formatted texts of the appended parts, concatenated in append order with
\* nothing in between.
C1_StringifyConcatenates ==
  \A b \in builders :
    OnlyAppends(trail[b]) => Text(b) = TextOfCalls(trail[b])

C1_Witness ==
  \E b \in builders :
    /\ Len(trail[b]) = 3
    /\ OnlyAppends(trail[b])
    /\ Text(b) = "a#a.b"

\* C2: a builder returned by an append holds at most one element, one id and
\* one pseudo-element part, and appending one of these three types to a
\* builder that already holds a part of that type returns no builder and
\* throws the uniqueness error.
C2_AtMostOnce ==
  /\ \A b \in builders : \A t \in OnceTypes : Occurrences(types(contents(b)), t) <= 1
  /\ \A b \in builders : \A m \in {"element", "id", "pseudoElement"} : \A v \in ValuesOf(m) :
       Occurrences(types(contents(b)), TypeOf(m)) >= 1 =>
         \A o \in {call(heap, result, b, m, v)} : o.err = UniqueMsg /\ o.new = None

C2_Witness ==
  \E b \in builders :
    /\ types(contents(b)) = <<"element", "id">>
    /\ call(heap, result, b, "id", "a").err = UniqueMsg
    /\ call(heap, result, b, "element", "a").err = UniqueMsg

\* C3: an append that passes the uniqueness check throws the order error
\* exactly when, among the distinct part types of the resulting sequence in
\* first-occurrence order, some type's rank is not greater than the rank of
\* the type just before it; otherwise it returns a builder.  class then id
\* fails with the order error.
C3_OrderErrorIff ==
  \A b \in builders : \A m \in AppendMethods : \A v \in ValuesOf(m) :
    OnlyAppendParts(contents(b)) =>
      \A o \in {call(heap, result, b, m, v)} :
      \A d \in {Distinct(Append(types(contents(b)), TypeOf(m)))} :
        o.err /= UniqueMsg =>
          /\ o.err = OrderMsg <=> \E k \in 2..Len(d) : Rank(d[k]) <= Rank(d[k - 1])
          /\ o.err /= OrderMsg => (o.err = NoError /\ o.new \notin builders /\ o.new /= None)
          /\ (types(contents(b)) = <<"class">> /\ m = "id") => o.err = OrderMsg

C3_Witness ==
  \E b \in builders :
    /\ types(contents(b)) = <<"class">>
    /\ call(heap, result, b, "id", "a").err = OrderMsg
    /\ call(heap, result, b, "attr", "a").err = NoError

\* C4: an append of a part ranked lower than the last part of the receiver
\* fails, hence in every builder returned by a successful append the ranks of
\* the parts, read in append order, never decrease: no part follows a part of
\* a higher-ranked type, also when its type already occurred earlier.
C4_RanksNeverDecrease ==
  \A b \in builders :
    OnlyAppendParts(contents(b)) =>
      \A i \in 1..Len(contents(b)) : \A j \in 1..Len(contents(b)) :
        i < j => Rank(contents(b)[i].type) <= Rank(contents(b)[j].type)

\* C5: uniqueness is decided before ordering.  An append that adds a second
\* element, id or pseudo-element throws the uniqueness error and never the
\* order error, also when the duplicate comes after higher-ranked parts; an
\* append that throws the order error leaves no such duplicate.
C5_UniquenessFirst ==
  \A b \in builders : \A m \in AppendMethods : \A v \in ValuesOf(m) :
    LET after == Append(types(contents(b)), TypeOf(m))
        dup   == \E t \in OnceTypes : Occurrences(after, t) >= 2
    IN  dup => \A o \in {call(heap, result, b, m, v)} :
                 o.err = UniqueMsg /\ o.err /= OrderMsg

C5_Witness ==
  \E b \in builders :
    /\ types(contents(b)) = <<"id", "class">>
    /\ call(heap, result, b, "id", "a").err = UniqueMsg

----------------------------------------------------------------------------
\* C6: for distinct builders l and r and any separator s,
\* facade.combine(l, s, r).stringify() returns text(l) + " " + s + " " +
\* text(r), text(x) being what x.stringify() would have returned just before
\* the combine call; l and r may themselves be results of combine.
C6_CombineText ==
  \A b \in builders :
    (/\ Len(trail[b]) = 1
     /\ trail[b][1].method = "combine"
     /\ ~trail[b][1].same) =>
       Text(b) = trail[b][1].leftText \o " " \o trail[b][1].arg \o " " \o trail[b][1].rightText

C6_Witness ==
  \E b \in builders :
    /\ Len(trail[b]) = 1
    /\ trail[b][1].method = "combine"
    /\ ~trail[b][1].same
    /\ trail[b][1].leftText = "#a"
    /\ trail[b][1].rightText = ".b"
    /\ Text(b) = "#a + .b"

\* C7: stringify() consumes its receiver: once stringify() has been called on
\* a builder, a further stringify() on that builder returns the empty string,
\* whatever has been called on other builders in between.
C7_StringifyConsumes ==
  \A b \in builders \ {Facade} : trail[b] = <<>> => Text(b) = ""

C7_Witness ==
  \E b \in builders \ {Facade} : \E c \in builders \ {Facade} :
    /\ trail[b] = <<>>
    /\ Text(b) = ""
    /\ c > b
    /\ Len(trail[c]) = 2

\* The contents and the outcomes of a chain run alone: its calls replayed, in
\* order, on a store that holds nothing but an empty facade.
RECURSIVE Alone(_)
Alone(tr) ==
  IF tr = <<>> THEN [heap |-> (0 :> <<>>), result |-> (Facade :> 0), last |-> Facade]
  ELSE LET before == Alone(SubSeq(tr, 1, Len(tr) - 1))
           c      == tr[Len(tr)]
           o      == call(before.heap, before.result, before.last, c.method, c.arg)
       IN  [heap |-> o.heap, result |-> o.result, last |-> o.new]

\* C8: chains started independently from the facade do not interfere, however
\* their appends and stringify calls interleave: what a chain's stringify()
\* returns and the error each of its appends throws are what they are when
\* the chain runs alone, and a chain holds none of another chain's parts.
C8_ChainsIndependent ==
  \A b \in builders :
    OnlyAppends(trail[b]) =>
      \A alone \in {Alone(trail[b])} :
          /\ alone.last /= None
          /\ contents(b) = alone.heap[alone.result[alone.last]]
          /\ Text(b) = stringify(alone.heap, alone.result, alone.last).text
          /\ \A m \in AppendMethods : \A v \in ValuesOf(m) :
               call(heap, result, b, m, v).err
                 = call(alone.heap, alone.result, alone.last, m, v).err

C8_Witness ==
  /\ builders = 0..3
  /\ Len(trail[1]) = 1 /\ trail[1][1].method = "id"
  /\ Len(trail[2]) = 1 /\ trail[2][1].method = "class"
  /\ Len(trail[3]) = 2 /\ trail[3][1].method = "id" /\ trail[3][2].method = "attr"
  /\ Text(2) = ".b"
  /\ Text(3) = "#a[a]"

\* C9: the facade's own sequence is empty in every reachable state, whatever
\* is called on the facade or on the builders derived from it.
C9_FacadeEmpty == contents(Facade) = <<>> /\ Text(Facade) = ""

C9_Witness ==
  /\ contents(Facade) = <<>>
  /\ \E b \in builders \ {Facade} : Len(trail[b]) = 1 /\ trail[b][1].method = "combine"
  /\ \E b \in builders \ {Facade} : trail[b] = <<>>
  /\ \E b \in builders \ {Facade} : Len(trail[b]) = 1 /\ trail[b][1].method = "element"

\* C10: class, attribute and pseudo-class parts may repeat: appending class
\* (attr, pseudoClass) to a builder whose last part has that same type
\* succeeds, and the new builder's text is the receiver's text followed by
\* the new part.
C10_Repeatable ==
  \A b \in builders : \A m \in {"class", "attr", "pseudoClass"} : \A v \in ValuesOf(m) :
    (contents(b) /= <<>> /\ contents(b)[Len(contents(b))].type = TypeOf(m)) =>
      \A o \in {call(heap, result, b, m, v)} :
        /\ o.err = NoError
        /\ stringify(o.heap, o.result, o.new).text = Text(b) \o Formatted(m, v)

C10_Witness ==
  \E b \in builders :
    /\ types(contents(b)) = <<"class", "class", "class">>
    /\ Text(b) = ".a.b.a"

----------------------------------------------------------------------------
\* The stores in which calls are made: those with room for one more builder.
Room == Cardinality(builders) <= MaxBuilders

\* The part a call of an append method adds.
PartOf(c) == [type |-> TypeOf(c.method), value |-> Formatted(c.method, c.arg)]

\* C11: an append never modifies its receiver.  For every append call made
\* (on any builder, in any store with room): whether the call returns a
\* builder or throws, every builder there was before the call, the receiver
\* included, holds the parts it held before; a call that throws leaves the
\* whole store as it was, so the receiver stringifies as before; a call that
\* returns gives a builder holding the receiver's parts followed by the new
\* part.  Hence a builder derived by an append from another holds that one's
\* parts plus its own part, however many builders were derived from it.
C11_AppendKeepsReceiver ==
  /\ Room => \A b \in builders : \A m \in AppendMethods : \A v \in ValuesOf(m) :
       \A o \in {call(heap, result, b, m, v)} :
         /\ \A c \in builders : o.result[c] = result[c] /\ o.heap[o.result[c]] = contents(c)
         /\ o.err /= NoError =>
              /\ o.heap = heap /\ o.result = result
              /\ stringify(o.heap, o.result, b).text = Text(b)
         /\ o.err = NoError =>
              o.heap[o.result[o.new]]
                = contents(b) \o <<[type |-> TypeOf(m), value |-> Formatted(m, v)]>>
  /\ \A b \in builders : \A c \in builders :
       (/\ Len(trail[c]) = Len(trail[b]) + 1
        /\ SubSeq(trail[c], 1, Len(trail[b])) = trail[b]
        /\ trail[c][Len(trail[c])].method \in AppendMethods) =>
          contents(c) = contents(b) \o <<PartOf(trail[c][Len(trail[c])])>>

C11_Witness ==
  \E b \in builders : \E c \in builders : \E d \in builders :
    /\ types(contents(b)) = <<"id">>
    /\ Len(trail[b]) = 1
    /\ types(contents(c)) = <<"id", "class">>
    /\ types(contents(d)) = <<"id", "attribute">>
    /\ SubSeq(trail[c], 1, 1) = trail[b]
    /\ SubSeq(trail[d], 1, 1) = trail[b]
    /\ call(heap, result, b, "id", "a").err = UniqueMsg
    /\ call(heap, result, c, "id", "a").err = UniqueMsg
    /\ Text(b) = "#a"

\* C12: errors arise only at append calls.  stringify() on any builder (the
\* facade, a partly built chain, a combine result, a consumed builder) gives
\* a string, and every builder there is satisfies the uniqueness and the
\* ordering rule: the code's own two checks pass on it, each of element, id
\* and pseudo-element occurs at most once, and its distinct types, in the
\* order of their first occurrences, have strictly increasing ranks.  So
\* there is no violation left for stringify() to detect.
C12_ErrorsOnlyAtAppend ==
  \A b \in builders :
    /\ Text(b) \in STRING
    /\ multiple(contents(b))
    /\ ordered(contents(b))
    /\ \A t \in OnceTypes : Occurrences(types(contents(b)), t) <= 1
    /\ \A d \in {Distinct(types(contents(b)))} :
         \A k \in 2..Len(d) : Rank(d[k]) > Rank(d[k - 1])

C12_Witness ==
  \E b \in builders \ {Facade} : \E c \in builders : \E d \in builders :
    /\ trail[b] = <<>> /\ Text(b) = ""
    /\ types(contents(c)) = <<"combine">> /\ Text(c) \in STRING /\ Text(c) /= ""
    /\ types(contents(d)) = <<"element">> /\ Text(d) = "a"
    /\ Text(Facade) = ""
    /\ call(heap, result, d, "element", "a").err = UniqueMsg
    /\ call(heap, result, c, "id", "a").err = OrderMsg

\* C13: stringify() clears only the sequence of its receiver.  After
\* b.stringify() the receiver is empty and every other builder (the one b was
\* derived from, those derived from b, those derived from the same parent,
\* the facade) holds exactly the parts it held before the call.
C13_StringifyClearsOnlyReceiver ==
  \A b \in builders : \A s \in {stringify(heap, result, b)} :
    /\ s.heap[result[b]] = <<>>
    /\ \A c \in builders \ {b} :
         /\ result[c] /= result[b]
         /\ s.heap[result[c]] = contents(c)

\* Builder 1 = facade.id, builder 2 = facade.class (same parent), builder
\* 3 = builder 1 .class (derived from it), and builder 1 has been stringified.
C13_Witness ==
  /\ builders = 0..3
  /\ trail[1] = <<>> /\ contents(1) = <<>>
  /\ Len(trail[2]) = 1 /\ trail[2][1].method = "class"
  /\ Len(trail[3]) = 2 /\ trail[3][1].method = "id" /\ trail[3][2].method = "class"
  /\ Len(contents(2)) = 1
  /\ types(contents(3)) = <<"id", "class">>
  /\ contents(Facade) = <<>>

----------------------------------------------------------------------------
\* C14 as claimed: after this.combine(l, s, r) both l and r are empty and
\* stringify to the empty string, and the builder combine was called on holds
\* what it held before, whichever builders this, l and r are.
C14_CombineKeepsAnyReceiver ==
  Room => \A this \in builders : \A l \in builders : \A r \in builders :
          \A s \in Separators : \A o \in {combine(heap, result, this, l, s, r)} :
    /\ o.err = NoError
    /\ o.heap[o.result[l]] = <<>> /\ stringify(o.heap, o.result, l).text = ""
    /\ o.heap[o.result[r]] = <<>> /\ stringify(o.heap, o.result, r).text = ""
    /\ o.heap[o.result[this]] = contents(this)

\* C14, amended: after this.combine(l, s, r) both l and r are empty and
\* stringify to the empty string; the builder combine was called on holds
\* what it held before when it is neither l nor r, and is empty, as an
\* operand, when it is l or r.
C14_CombineConsumesOperands ==
  Room => \A this \in builders : \A l \in builders : \A r \in builders :
          \A s \in Separators : \A o \in {combine(heap, result, this, l, s, r)} :
    /\ o.err = NoError
    /\ o.heap[o.result[l]] = <<>> /\ stringify(o.heap, o.result, l).text = ""
    /\ o.heap[o.result[r]] = <<>> /\ stringify(o.heap, o.result, r).text = ""
    /\ this \notin {l, r} => o.heap[o.result[this]] = contents(this)
    /\ this \in {l, r} => o.heap[o.result[this]] = <<>>

\* Builder 1 = facade.id, builder 2 = facade.class, builder 3 =
\* builder 1 .combine(builder 2, "+", facade).
C14_Witness ==
  /\ builders = 0..3
  /\ types(contents(1)) = <<"id">>
  /\ trail[2] = <<>> /\ contents(2) = <<>> /\ Text(2) = ""
  /\ types(contents(3)) = <<"id", "combine">>
  /\ trail[3][2].leftText \in {".a", ".b"}
  /\ trail[3][2].rightText = ""

\* C15: a combine part has the highest rank, so once a builder's sequence
\* holds a combine part every later element, id, class, attr, pseudoClass or
\* pseudoElement append on that chain fails; hence in every builder nothing
\* but combine parts follows a combine part.
C15_NothingFollowsCombine ==
  \A b \in builders :
    \A i \in 1..Len(contents(b)) : \A j \in 1..Len(contents(b)) :
      (i < j /\ contents(b)[i].type = "combine") => contents(b)[j].type = "combine"

\* C16: a consumed builder behaves like a fresh one.  After b.stringify(),
\* whatever b held, every append on b returns a new builder (also an element,
\* id or pseudo-element b held before, also a type ranked below parts b held
\* before), that builder holds the new part alone and stringifies to its
\* text, and b is still empty.
C16_ConsumedIsFresh ==
  Room => \A b \in builders : \A s \in {stringify(heap, result, b)} :
          \A m \in AppendMethods : \A v \in ValuesOf(m) :
          \A o \in {call(s.heap, result, b, m, v)} :
    /\ o.err = NoError
    /\ o.new \notin builders /\ o.new /= None
    /\ o.heap[o.result[o.new]] = <<[type |-> TypeOf(m), value |-> Formatted(m, v)]>>
    /\ stringify(o.heap, o.result, o.new).text = Formatted(m, v)
    /\ o.heap[o.result[b]] = <<>>

\* Builder 2 has been consumed and appends succeed on it; builder 3 holds a
\* single id, so that id and element fail on it as it is and succeed once it
\* has been stringified.
C16_Witness ==
  /\ builders = 0..3
  /\ types(contents(1)) = <<"id">>
  /\ trail[2] = <<>> /\ contents(2) = <<>>
  /\ types(contents(3)) = <<"id">> /\ Text(3) = "#a"
  /\ call(heap, result, 2, "id", "a").err = NoError
  /\ call(heap, result, 2, "element", "a").err = NoError
  /\ call(heap, result, 3, "id", "a").err = UniqueMsg
  /\ call(heap, result, 3, "element", "a").err = OrderMsg
  /\ call(stringify(heap, result, 3).heap, result, 3, "id", "a").err = NoError
  /\ call(stringify(heap, result, 3).heap, result, 3, "element", "a").err = NoError

\* C17: combine stringifies its left operand before its right operand.  When
\* the same builder b is passed as both operands, the combine part's text is
\* text(b) + " " + s + " " followed by nothing: the left side carries b's
\* parts and the right side is empty.  text(b) is what b.stringify() would
\* have returned just before the call.
C17_SameOperandTwice ==
  /\ Room => \A this \in builders : \A b \in builders : \A s \in Separators :
       \A o \in {combine(heap, result, this, b, s, b)} :
         /\ o.err = NoError
         /\ o.heap[o.result[o.new]][Len(o.heap[o.result[o.new]])]
              = [type |-> "combine", value |-> Text(b) \o " " \o s \o " "]
         /\ this = Facade =>
              stringify(o.heap, o.result, o.new).text = Text(b) \o " " \o s \o " "
  /\ \A c \in builders :
       (/\ Len(trail[c]) = 1
        /\ trail[c][1].method = "combine"
        /\ trail[c][1].same) =>
          Text(c) = trail[c][1].leftText \o " " \o trail[c][1].arg \o " "

C17_Witness ==
  \E c \in builders :
    /\ Len(trail[c]) = 1
    /\ trail[c][1].method = "combine"
    /\ trail[c][1].same
    /\ trail[c][1].leftText = "#a.b"
    /\ Text(c) = "#a.b + "

====
